---- MODULE Spec2Model ----
(***************************************************************************)
(* Wake-On-LAN sender: the two address parsers (ip_cstr_to_number,         *)
(* mac_cstr_to_number), the sender routine wake_on_lan with both of its    *)
(* platform variants (POSIX and _WIN32), and the command line front end    *)
(* main.                                                                   *)
(*                                                                         *)
(* Numbers wider than 31 bits (uint32_t, int64_t, uintmax_t) are kept as   *)
(* fixed-width sequences of hexadecimal nibbles, most significant first:   *)
(* 8 nibbles for uint32_t, 16 for int64_t/uintmax_t.  Arithmetic on them   *)
(* wraps at the width, as the C types do.                                  *)
(*                                                                         *)
(* C strings are sequences of ASCII codes; the terminating NUL is the      *)
(* character read at index Len(s).                                         *)
(***************************************************************************)
EXTENDS Integers, Sequences, FiniteSets, TLC

(***************************************************************************)
(* Characters                                                              *)
(***************************************************************************)
AsciiChars ==
    << " ", "-", ".", "0", "1", "2", "3", "4", "5", "6", "7", "8", "9", ":",
       "A", "B", "C", "D", "E", "F", "G", "X",
       "a", "b", "c", "d", "e", "f", "g", "h", "i", "m", "p", "s", "w", "x" >>

AsciiCodes ==
    << 32, 45, 46, 48, 49, 50, 51, 52, 53, 54, 55, 56, 57, 58,
       65, 66, 67, 68, 69, 70, 71, 88,
       97, 98, 99, 100, 101, 102, 103, 104, 105, 109, 112, 115, 119, 120 >>

Ord(ch) == AsciiCodes[CHOOSE k \in 1..Len(AsciiChars) : AsciiChars[k] = ch]

\* the C string whose characters are the one-character strings of t
Str(t) == [k \in 1..Len(t) |-> Ord(t[k])]

\* s[i] of a NUL-terminated C string, i counted from 0
At(s, i) == IF i < Len(s) THEN s[i + 1] ELSE 0

(***************************************************************************)
(* Fixed-width unsigned arithmetic on nibble sequences                     *)
(***************************************************************************)
Zeros(n) == [k \in 1..n |-> 0]

Ones(n) == [k \in 1..n |-> 15]

\* conversion to a narrower unsigned type: the low w nibbles
Trunc(x, w) == SubSeq(x, Len(x) - w + 1, Len(x))

\* conversion of an unsigned value to a wider type
ZExt(x, w) == Zeros(w - Len(x)) \o x

\* x << 4k at the width of x
ShlN(x, k) == SubSeq(x, k + 1, Len(x)) \o Zeros(k)

\* x >> 4k at the width of x (unsigned)
ShrN(x, k) == Zeros(k) \o SubSeq(x, 1, Len(x) - k)

\* a small non-negative integer at width w
FromInt(v, w) == [k \in 1..w |-> IF w - k >= 7 THEN 0 ELSE (v \div (16 ^ (w - k))) % 16]

\* the 16-bit limb j (0 the least significant) of a 16-nibble value
Limb(x, j) ==
    4096 * x[13 - 4 * j] + 256 * x[14 - 4 * j] + 16 * x[15 - 4 * j] + x[16 - 4 * j]

\* the 16-nibble value of four 16-bit limbs, l0 the least significant
FromLimbs(l3, l2, l1, l0) ==
    FromInt(l3, 4) \o FromInt(l2, 4) \o FromInt(l1, 4) \o FromInt(l0, 4)

\* x * m + y + c on 16-nibble values (m a small integer), with the carry out
\* of bit 63 reported
MulAdd64(x, m, y, c) ==
    LET s0 == Limb(x, 0) * m + Limb(y, 0) + c
        s1 == Limb(x, 1) * m + Limb(y, 1) + s0 \div 65536
        s2 == Limb(x, 2) * m + Limb(y, 2) + s1 \div 65536
        s3 == Limb(x, 3) * m + Limb(y, 3) + s2 \div 65536
    IN  [digits |-> FromLimbs(s3 % 65536, s2 % 65536, s1 % 65536, s0 % 65536),
         carry |-> s3 \div 65536]

\* x + y + c at the width of x, the carry out of the top nibble dropped
AddNib(x, y, c) ==
    Trunc(MulAdd64(ZExt(x, 16), 1, ZExt(y, 16), c).digits, Len(x))

\* x * m + c on a uintmax_t, with the carry out of the top nibble reported
MulAddNib(x, m, c) == MulAdd64(x, m, Zeros(16), c)

\* two's complement negation at the width of x
Neg(x) == AddNib([k \in 1..Len(x) |-> 15 - x[k]], Zeros(Len(x)), 1)

\* x & 0xFF as a small integer
LowByte(x) == 16 * x[Len(x) - 1] + x[Len(x)]

(***************************************************************************)
(* strtoumax of <inttypes.h>, as the parsers and main use it               *)
(***************************************************************************)
IsSpace(c) == c = 32 \/ (9 <= c /\ c <= 13)

DigitVal(c) ==
    IF 48 <= c /\ c <= 57 THEN c - 48
    ELSE IF 97 <= c /\ c <= 122 THEN c - 97 + 10
    ELSE IF 65 <= c /\ c <= 90 THEN c - 65 + 10
    ELSE 99

RECURSIVE SkipSpace(_, _)
SkipSpace(s, p) == IF IsSpace(At(s, p)) THEN SkipSpace(s, p + 1) ELSE p

\* the index after the longest run of base b digits that starts at p
RECURSIVE DigitsEnd(_, _, _)
DigitsEnd(s, p, b) == IF DigitVal(At(s, p)) >= b THEN p ELSE DigitsEnd(s, p + 1, b)

\* the value of the base b digits s[p..q-1] as a uintmax_t; a value that
\* does not fit is reported by ovf
RECURSIVE StrtoDigits(_, _, _, _)
StrtoDigits(s, p, q, b) ==
    IF q <= p THEN [val |-> Zeros(16), ovf |-> FALSE]
    ELSE LET prev == StrtoDigits(s, p, q - 1, b)
             r == MulAddNib(prev.val, b, DigitVal(At(s, q - 1)))
         IN  IF prev.ovf THEN prev
             ELSE [val |-> r.digits, ovf |-> r.carry # 0]

\* whether the subject sequence at p opens with 0x or 0X and a hex digit
HasHexPrefix(s, p) ==
    At(s, p) = 48 /\ At(s, p + 1) \in { 120, 88 } /\ DigitVal(At(s, p + 2)) < 16

\* the result for the digits s[p2..q-1] of base b, r their value
strto_result(start, neg, p2, q, r) ==
    IF q = p2 THEN [val |-> Zeros(16), endptr |-> start]
    ELSE IF r.ovf THEN [val |-> Ones(16), endptr |-> q]
    ELSE [val |-> IF neg THEN Neg(r.val) ELSE r.val, endptr |-> q]

\* the digits from p2 on, of base b, end at q
strto_digits(s, start, neg, p2, b, q) ==
    strto_result(start, neg, p2, q, StrtoDigits(s, p2, q, b))

\* the digits start at p2 and are of base b
strto_based(s, start, neg, p2, b) ==
    strto_digits(s, start, neg, p2, b, DigitsEnd(s, p2, b))

\* after the sign: p1 is where the prefix or the digits start
strto_prefix(s, start, base, neg, p1) ==
    IF base # 0 THEN strto_based(s, start, neg, p1, base)
    ELSE IF HasHexPrefix(s, p1) THEN strto_based(s, start, neg, p1 + 2, 16)
    ELSE IF At(s, p1) = 48 THEN strto_based(s, start, neg, p1, 8)
    ELSE strto_based(s, start, neg, p1, 10)

\* after the white space: p0 is where the sign or the number starts
strto_sign(s, start, base, p0) ==
    strto_prefix(s, start, base, At(s, p0) = 45,
                 IF At(s, p0) = 45 \/ At(s, p0) = 43 THEN p0 + 1 ELSE p0)

\* strtoumax(s + start, &endptr, base) for base 0 or 10: the value as a
\* uintmax_t and endptr as an index into s
strtoumax(s, start, base) == strto_sign(s, start, base, SkipSpace(s, start))

(***************************************************************************)
(* ip_cstr_to_number                                                       *)
(***************************************************************************)
\* INT64_C(-1)
MinusOne64 == Ones(16)

\* the part r that strtoumax found is stored as the next octet
ip_store(st, r) ==
    [octet |-> st.octet + 1,
     ip_octets |-> [st.ip_octets EXCEPT ![st.octet + 1] = Trunc(r.val, 8)]]

\* the for loop: i is the index, st the pair (octet, ip_octets)
RECURSIVE ip_scan(_, _, _, _, _)

\* the body of the loop for a digit at i, r being strtoumax(ip + i, &endptr, base)
ip_token(ip, sizeof_ip, base, st, r) ==
    IF At(ip, r.endptr) # 46 THEN ip_store(st, r)
    ELSE ip_scan(ip, sizeof_ip, base, r.endptr + 1, ip_store(st, r))

ip_scan(ip, sizeof_ip, base, i, st) ==
    IF ~(i < sizeof_ip /\ At(ip, i) # 0 /\ st.octet < 4) THEN st
    ELSE IF 48 <= At(ip, i) /\ 57 >= At(ip, i)
         THEN ip_token(ip, sizeof_ip, base, st, strtoumax(ip, i, base))
         ELSE ip_scan(ip, sizeof_ip, base, i + 1, st)

\* the number of parts the loop collects and their uint32_t values
ip_parts(ip, sizeof_ip, base) ==
    ip_scan(ip, sizeof_ip, base, 0,
            [octet |-> 0, ip_octets |-> << Zeros(8), Zeros(8), Zeros(8), Zeros(8) >>])

\* uint32_t addition
Add32(x, y) == AddNib(x, y, 0)

\* a | b on two nibbles
NibOr(a, b) ==
    (IF a % 2 = 1 \/ b % 2 = 1 THEN 1 ELSE 0)
    + (IF (a \div 2) % 2 = 1 \/ (b \div 2) % 2 = 1 THEN 2 ELSE 0)
    + (IF (a \div 4) % 2 = 1 \/ (b \div 4) % 2 = 1 THEN 4 ELSE 0)
    + (IF (a \div 8) % 2 = 1 \/ (b \div 8) % 2 = 1 THEN 8 ELSE 0)

\* x | y on values of one width
OrW(x, y) == [k \in 1..Len(x) |-> NibOr(x[k], y[k])]

\* the switch with | in place of +
ip_assemble_or(octet, o) ==
    CASE octet = 4 ->
           ZExt(OrW(OrW(OrW(ShlN(o[1], 6), ShlN(o[2], 4)), ShlN(o[3], 2)), o[4]), 16)
      [] octet = 3 -> ZExt(OrW(OrW(ShlN(o[1], 6), ShlN(o[2], 4)), o[3]), 16)
      [] octet = 2 -> ZExt(OrW(ShlN(o[1], 6), o[2]), 16)
      [] octet = 1 -> ZExt(o[1], 16)
      [] OTHER -> MinusOne64

\* the switch on octet: uint32_t arithmetic, the result widened to int64_t
ip_assemble(octet, o) ==
    CASE octet = 4 ->
           ZExt(Add32(Add32(Add32(ShlN(o[1], 6), ShlN(o[2], 4)), ShlN(o[3], 2)), o[4]), 16)
      [] octet = 3 -> ZExt(Add32(Add32(ShlN(o[1], 6), ShlN(o[2], 4)), o[3]), 16)
      [] octet = 2 -> ZExt(Add32(ShlN(o[1], 6), o[2]), 16)
      [] octet = 1 -> ZExt(o[1], 16)
      [] OTHER -> MinusOne64

\* the switch applied to what the loop left
ip_switch(st) == ip_assemble(st.octet, st.ip_octets)

ip_cstr_to_number(ip, sizeof_ip, base) == ip_switch(ip_parts(ip, sizeof_ip, base))

(***************************************************************************)
(* mac_cstr_to_number                                                      *)
(***************************************************************************)
\* no = (no << 4) + d on int64_t
mac_shift_add(no, d) == AddNib(ShlN(no, 1), FromInt(d, 16), 0)

\* lower case letters without the + 10
mac_digit_lower(c) ==
    IF 48 <= c /\ 57 >= c THEN c - 48
    ELSE IF 65 <= c /\ 70 >= c THEN c + 10 - 65
    ELSE IF 97 <= c /\ 102 >= c THEN c - 97
    ELSE -1

\* the value one character adds, or -1 when the character is skipped
mac_digit(c) ==
    IF 48 <= c /\ 57 >= c THEN c - 48
    ELSE IF 65 <= c /\ 70 >= c THEN c + 10 - 65
    ELSE IF 97 <= c /\ 102 >= c THEN c + 10 - 97
    ELSE -1

\* the for loop: st is the pair (hex_letters, no)
mac_step(st, d) ==
    IF d >= 0
    THEN [hex_letters |-> st.hex_letters + 1, no |-> mac_shift_add(st.no, d)]
    ELSE st

RECURSIVE mac_scan(_, _, _)
mac_scan(mac_cstr, i, st) ==
    IF ~(i < 17 /\ st.hex_letters < 12 /\ At(mac_cstr, i) # 0) THEN st
    ELSE mac_scan(mac_cstr, i + 1, mac_step(st, mac_digit(At(mac_cstr, i))))

\* the digit count is not tested
mac_result_nocheck(st) == st.no

\* the test after the loop
mac_result(st) == IF 12 # st.hex_letters THEN MinusOne64 ELSE st.no

mac_cstr_to_number(mac_cstr) ==
    mac_result(mac_scan(mac_cstr, 0, [hex_letters |-> 0, no |-> Zeros(16)]))

(***************************************************************************)
(* wake_on_lan_errors_t                                                    *)
(***************************************************************************)
WAKE_ON_LAN_ERRORS_NONE == 0
WAKE_ON_LAN_ERRORS_UNKNOWN == 1
WAKE_ON_LAN_ERRORS_IP == 2
WAKE_ON_LAN_ERRORS_MAC == 3
WAKE_ON_LAN_ERRORS_WSA_STARTUP == 4
WAKE_ON_LAN_ERRORS_WINSOCK == 5
WAKE_ON_LAN_ERRORS_SOCKET_CREATION == 6
WAKE_ON_LAN_ERRORS_SOCKET_OPTION == 7
WAKE_ON_LAN_ERRORS_SEND == 8
WAKE_ON_LAN_ERRORS_SOCKET_CLOSE == 9

(***************************************************************************)
(* The magic packet                                                        *)
(***************************************************************************)
\* sizeof(data), data being uint8_t[6 * (1 + 16)]
SizeofData == 102

\* the GET_BYTE_n macros: a cast, a shift and a mask
GET_BYTE_0(NO) == LowByte(ShrN(Trunc(NO, 2), 0))

\* byte 1 taken through the cast of byte 0
GET_BYTE_1_u8(NO) == LowByte(ShrN(Trunc(NO, 2), 2))

GET_BYTE_1(NO) == LowByte(ShrN(Trunc(NO, 4), 2))

GET_BYTE_2(NO) == LowByte(ShrN(Trunc(NO, 8), 4))

GET_BYTE_3(NO) == LowByte(ShrN(Trunc(NO, 8), 6))

GET_BYTE_4(NO) == LowByte(ShrN(Trunc(NO, 16), 8))

GET_BYTE_5(NO) == LowByte(ShrN(Trunc(NO, 16), 10))

\* conversion of an int to char (signed, 8 bits) and of a char to uint8_t
ToChar(v) == IF (v % 256) >= 128 THEN (v % 256) - 256 ELSE (v % 256)

ToU8(v) == v % 256

\* data as declared: the six 0xFF bytes are set, the rest is not (-1)
InitialData == [k \in 0..(SizeofData - 1) |-> IF k < 6 THEN 255 ELSE -1]

\* the loop that stores the 16 copies of the MAC
FillData(data, mac) ==
    LET mac5 == ToChar(GET_BYTE_5(mac))
        mac4 == ToChar(GET_BYTE_4(mac))
        mac3 == ToChar(GET_BYTE_3(mac))
        mac2 == ToChar(GET_BYTE_2(mac))
        mac1 == ToChar(GET_BYTE_1(mac))
        mac0 == ToChar(GET_BYTE_0(mac))
        copy == << mac5, mac4, mac3, mac2, mac1, mac0 >>
    IN  [k \in DOMAIN data |->
            IF \E i \in 1..16 : \E j \in 0..5 : k = ToChar(i * 6) + j
            THEN ToU8(copy[(k % 6) + 1])
            ELSE data[k]]

(***************************************************************************)
(* Inputs                                                                  *)
(***************************************************************************)
\* calls of wake_on_lan made by one host program
MaxCalls == 2

\* sockets the process can hold open (the descriptor table)
MaxOpen == 2

\* texts handed to wake_on_lan as ip_v4_cstr
IpInputs ==
    { Str(<< "1","9","2",".","1","6","8",".","1","7","8",".","2","5","5" >>),
      Str(<< " ","1","9","2",".","1","6","8",".","1","7","8",".","2","5","5" >>),
      Str(<< "1","0",".","1" >>),
      Str(<< "a","b","c" >>),
      Str(<< >>),
      Str(<< "7" >>),
      Str(<< "1",".","2",".","3" >>),
      Str(<< "2","5","5",".","2","5","5",".","2","5","5",".","2","5","5" >>),
      Str(<< "1",".","2","5","6",".","0",".","0" >>),
      Str(<< "1",".","1",".","6","5","5","3","6" >>),
      Str(<< "1",".","1","6","7","7","7","2","1","6" >>),
      Str(<< "2","5","6",".","1" >>),
      Str(<< "3","0","0",".","3","0","0",".","3","0","0",".","3","0","0" >>),
      Str(<< "4","2","9","4","9","6","7","2","9","5" >>),
      Str(<< "4","2","9","4","9","6","7","2","9","6" >>),
      Str(<< "9","9","9","9","9","9","9","9","9","9","9","9","9","9","9","9","9","9","9","9" >>),
      Str(<< "0","x","C","0",".","0","x","A","8",".","0","x","B","2",".","0","x","F","F" >>),
      Str(<< "0","1","0",".","0","x","1","0",".","1","0",".","1" >>),
      Str(<< "0","8" >>),
      Str(<< "0","x" >>),
      Str(<< "1",".",".","2" >>),
      Str(<< "1",".","2",".","3",".","4",".","5" >>),
      Str(<< "1",".","2","x" >>),
      Str(<< "x","1","0",".","1" >>),
      Str(<< "-","1" >>),
      Str(<< " "," "," "," "," "," "," "," "," "," "," "," "," ","1" >>) }

\* texts handed to wake_on_lan as mac_cstr
MacInputs ==
    { Str(<< "F","F",":","F","F",":","F","F",":","F","F",":","F","F",":","F","F" >>),
      Str(<< "A","A","B","B","C","C","D","D","E","E","F","F" >>),
      Str(<< "a","a","b","b","c","c","d","d","e","e","f","f" >>),
      Str(<< "0","0",":","1","1",":","2","2",":","3","3",":","4","4",":","5","5" >>),
      Str(<< "0","0","-","1","1","-","2","2","-","3","3","-","4","4","-","5","5" >>),
      Str(<< "7","F",":","8","0",":","F","F",":","0","1",":","f","e",":","8","1" >>),
      Str(<< "0","1","2","3","4","5","6","7","8","9","a","B" >>),
      Str(<< "A","A",":","B","B" >>),
      Str(<< >>),
      Str(<< "A","A","B","B","C","C","D","D","E","E","F" >>),
      Str(<< "A","A","B","B","C","C","D","D","E","E","F","F","0","0" >>),
      Str(<< "A","A",":","B","B",":","C","C",":","D","D",":","E","E",":","F","F",":","0","0" >>),
      Str(<< "A","A",":",":","B","B",":",":","C","C",":",":","D","D",":",":","E","E",":",":","F","F" >>),
      Str(<< "G","G",":","1","1",":","2","2",":","3","3",":","4","4",":","5","5",":","6","6" >>),
      Str(<< "x","A","A","B","B","C","C","D","D","E","E","F","F" >>),
      Str(<< "1","2","3","4","5","6","7","8","9","0","1","2","3","4","5","6","7" >>) }

\* the texts the other parser is exercised with
GoodIp == Str(<< "1","9","2",".","1","6","8",".","1","7","8",".","2","5","5" >>)

ShortIp == Str(<< "1","0",".","1" >>)

BadIp == Str(<< "a","b","c" >>)

GoodMac == Str(<< "0","0",":","1","1",":","2","2",":","3","3",":","4","4",":","5","5" >>)

BadMac == Str(<< "A","A",":","B","B" >>)

\* the (ip_v4_cstr, mac_cstr) pairs of the calls: every IP text with a MAC
\* text that does not parse, every MAC text with an IP text that parses and
\* with one that does not, and a second address that reaches the socket
CallInputs ==
    (IpInputs \X { BadMac }) \cup ({ GoodIp, BadIp } \X MacInputs)
        \cup { << ShortIp, GoodMac >> }

\* the longest argument vector of main, the program name counted
MaxArgc == 5

\* argv[0]
ProgName == Str(<< "w" >>)

\* what the arguments after the program name are made of
ArgTokens ==
    { Str(<< "-","i" >>), Str(<< "-","m" >>), Str(<< "-","p" >>),
      Str(<< "-","h" >>), Str(<< "-","s" >>), ShortIp, GoodMac }

\* the argument vectors main is started with
ArgvInputs ==
    { << ProgName >> \o t : t \in UNION { [1..n -> ArgTokens] : n \in 0..(MaxArgc - 1) } }

\* ports a caller passes
PortInputs == { 9 }

\* what a caller's wake_on_lan_t holds before the call
WolInputs ==
    { [ip_v4 |-> Zeros(8), mac |-> Zeros(16), return_value |-> 0, last_error |-> 0],
      [ip_v4 |-> FromInt(2130706433, 8), mac |-> FromInt(43707, 16),
       return_value |-> WAKE_ON_LAN_ERRORS_UNKNOWN, last_error |-> 77] }

\* the record standing for "no wake_on_lan_t supplied" (wol == NULL)
NoWol == [ip_v4 |-> Zeros(8), mac |-> Zeros(16), return_value |-> 0, last_error |-> 0]

\* error codes the operating system reports (errno, WSAGetLastError())
OsErrors(p) == IF p = "win32" THEN { 10013, 10024 } ELSE { 13, 24 }

\* wsaData.wVersion values WSAStartup hands back, as (major, minor)
WsaVersions == { << 2, 2 >>, << 2, 0 >>, << 1, 2 >> }

\* return values of sendto: -1 (SOCKET_ERROR) or a count of bytes
SendtoResults == { -1, 0, 101, 102 }

(***************************************************************************)
(* State                                                                   *)
(***************************************************************************)
VARIABLES
    platform,   \* "posix" or "win32": which side of #ifdef _WIN32 is built
    pc,         \* the position of the program
    caller,     \* who called wake_on_lan: "lib" (a host program) or "cli" (main)
    arg,        \* the arguments of the running call of wake_on_lan
    wol,        \* the caller's wake_on_lan_t, when one is supplied
    loc,        \* the locals of wake_on_lan
    os,         \* the operating system: open sockets, Winsock start-ups
    hist,       \* what the running call has done so far
    cli,        \* the locals of main
    result,     \* the value the last call of wake_on_lan returned
    ncalls      \* calls of wake_on_lan started so far

vars == << platform, pc, caller, arg, wol, loc, os, hist, cli, result, ncalls >>

\* INVALID_SOCKET and the initial sockfd of the POSIX variant
NoSocket == -1

NoArg == [wol_given |-> FALSE, ip_v4_cstr |-> << >>, port |-> 0, mac_cstr |-> << >>]

\* the locals as declared, before the do-while block
InitialLoc ==
    [return_value |-> WAKE_ON_LAN_ERRORS_UNKNOWN, data |-> InitialData,
     sockfd |-> NoSocket, ip_v4 |-> Zeros(16), mac |-> Zeros(16),
     wVersion |-> << 0, 0 >>, sendto_result |-> -1]

\* the record of the call at hand before its first step: the steps taken,
\* the failed ones, descriptors created and closed, what sendto returned,
\* the error the operating system reported to the failed step of the block
\* and to the close, the parts the IPv4 parser collected, and what the
\* caller's wake_on_lan_t held at the call
NoHist ==
    [trace |-> << >>, failed |-> << >>, created |-> << >>, closed |-> << >>,
     close_failed |-> FALSE, sent |-> << >>, os_error |-> 0, close_error |-> 0,
     wol_in |-> NoWol,
     ip_parts |-> [octet |-> 0,
                   ip_octets |-> << Zeros(8), Zeros(8), Zeros(8), Zeros(8) >>]]

\* the locals of main as declared
InitialCli ==
    [argv |-> << >>, i |-> 0, ip |-> << >>, port |-> 60000, mac |-> << >>,
     parameter_i |-> FALSE, parameter_m |-> FALSE, help |-> FALSE, silent |-> FALSE,
     return_value |-> 0, inner_return_value |-> 0,
     null_read |-> FALSE, printed |-> << >>, exit_code |-> -1]

Init ==
    /\ platform \in { "posix", "win32" }
    /\ pc = "idle"
    /\ caller = "none"
    /\ arg = NoArg
    /\ wol = NoWol
    /\ loc = InitialLoc
    /\ os = [open |-> {}, wsa_started |-> 0, wsa_cleaned |-> 0]
    /\ hist = NoHist
    /\ cli = InitialCli
    /\ result = WAKE_ON_LAN_ERRORS_NONE
    /\ ncalls = 0

(***************************************************************************)
(* wake_on_lan                                                             *)
(***************************************************************************)
\* only the error code is stored in a supplied wake_on_lan_t
WolWith_last_error_only(field, value) ==
    IF arg.wol_given /\ field = "last_error" THEN [wol EXCEPT ![field] = value] ELSE wol

\* if(wol) { wol->field = value; }
WolWith(field, value) == IF arg.wol_given THEN [wol EXCEPT ![field] = value] ELSE wol

\* a step of the call is recorded, with whether the step itself failed
Did(step, fails) ==
    [hist EXCEPT !.trace = Append(@, step),
                 !.failed = IF fails THEN Append(@, step) ELSE @]

\* a step that failed in the operating system, which reports the error e
\* (errno, WSAGetLastError())
DidOsFail(step, e) == [Did(step, TRUE) EXCEPT !.os_error = e]

\* a return in place of break
AfterBlock_EarlyReturn == "return"

\* where break leads: the code after the do-while block
AfterBlock == "close"

\* a host program calls wake_on_lan(wol, ip_v4_cstr, port, mac_cstr)
Call ==
    /\ pc = "idle"
    /\ ncalls < MaxCalls
    /\ \E given \in BOOLEAN, w \in WolInputs, in \in CallInputs, port \in PortInputs :
          /\ given \/ w = NoWol
          /\ arg' = [wol_given |-> given, ip_v4_cstr |-> in[1], port |-> port,
                     mac_cstr |-> in[2]]
          /\ wol' = w
    /\ caller' = "lib"
    /\ loc' = InitialLoc
    /\ hist' = [NoHist EXCEPT !.wol_in = wol']
    /\ ncalls' = ncalls + 1
    /\ pc' = "ip"
    /\ UNCHANGED << platform, os, cli, result >>

\* the sentinel compared after a conversion to uint32_t
ip_failed_u32(ip_v4) == Trunc(ip_v4, 8) = Ones(8)

\* INT64_C(-1) == ip_v4
ip_failed(ip_v4) == ip_v4 = MinusOne64

\* the MAC result is not tested
mac_failed_never(mac) == FALSE

\* INT64_C(-1) == mac
mac_failed(mac) == mac = MinusOne64

\* ip_v4 = ip_cstr_to_number(ip_v4_cstr, 13, 0) and the test of its result
ParseIp ==
    /\ pc = "ip"
    /\ \E ip_v4 \in { ip_cstr_to_number(arg.ip_v4_cstr, 13, 0) } :
       /\ hist' = [Did("ip", ip_v4 = MinusOne64)
                      EXCEPT !.ip_parts = ip_parts(arg.ip_v4_cstr, 13, 0)]
       /\ IF ip_failed(ip_v4)
          THEN /\ loc' = [loc EXCEPT !.return_value = WAKE_ON_LAN_ERRORS_IP,
                                     !.ip_v4 = ip_v4]
               /\ wol' = WolWith("last_error", -1)
               /\ pc' = AfterBlock
          ELSE /\ loc' = [loc EXCEPT !.ip_v4 = ip_v4]
               /\ wol' = WolWith("ip_v4", Trunc(ip_v4, 8))
               /\ pc' = "mac"
    /\ UNCHANGED << platform, caller, arg, os, cli, result, ncalls >>

\* mac = mac_cstr_to_number(mac_cstr) and the test of its result
ParseMac ==
    /\ pc = "mac"
    /\ \E mac \in { mac_cstr_to_number(arg.mac_cstr) } :
       /\ hist' = Did("mac", mac = MinusOne64)
       /\ IF mac_failed(mac)
          THEN /\ loc' = [loc EXCEPT !.return_value = WAKE_ON_LAN_ERRORS_MAC,
                                     !.mac = mac]
               /\ wol' = WolWith("last_error", -1)
               /\ pc' = AfterBlock
          ELSE /\ loc' = [loc EXCEPT !.mac = mac]
               /\ wol' = WolWith("mac", mac)
               /\ pc' = IF platform = "win32" THEN "wsa_startup" ELSE "socket"
    /\ UNCHANGED << platform, caller, arg, os, cli, result, ncalls >>

\* _WIN32: WSAStartup(MAKEWORD(2, 2), &wsaData)
WsaStartup ==
    /\ pc = "wsa_startup"
    /\ platform = "win32"
    /\ \/ \E e \in OsErrors(platform) :
            /\ hist' = DidOsFail("wsa_startup", e)
            /\ os' = os
            /\ loc' = [loc EXCEPT !.return_value = WAKE_ON_LAN_ERRORS_WSA_STARTUP]
            /\ wol' = WolWith("last_error", e)
            /\ pc' = AfterBlock
       \/ \E v \in WsaVersions :
            /\ hist' = Did("wsa_startup", FALSE)
            /\ os' = [os EXCEPT !.wsa_started = @ + 1]
            /\ loc' = [loc EXCEPT !.wVersion = v]
            /\ wol' = wol
            /\ pc' = "winsock"
    /\ UNCHANGED << platform, caller, arg, cli, result, ncalls >>

\* _WIN32: the check that the DLL supports version 2.2
CheckWinsock ==
    /\ pc = "winsock"
    /\ LET major == 2
           minor == 2
           available_major == loc.wVersion[1]
           available_minor == loc.wVersion[2]
       IN  /\ hist' = Did("winsock", loc.wVersion # << 2, 2 >>)
           /\ IF available_major # major \/ available_minor # minor
              THEN /\ loc' = [loc EXCEPT !.return_value = WAKE_ON_LAN_ERRORS_WINSOCK]
                   /\ wol' = WolWith("last_error", available_major * 256 + available_minor)
                   /\ pc' = AfterBlock
              ELSE /\ UNCHANGED << loc, wol >>
                   /\ pc' = "socket"
    /\ UNCHANGED << platform, caller, arg, os, cli, result, ncalls >>

\* the descriptor socket() hands out: the lowest one not in use
NewSocket == CHOOSE fd \in 3..(3 + MaxOpen) : fd \notin os.open /\
                 \A g \in 3..(fd - 1) : g \in os.open

\* sockfd = socket(AF_INET, SOCK_DGRAM, IPPROTO_UDP) and the test of sockfd
CreateSocket ==
    /\ pc = "socket"
    /\ \/ \E e \in OsErrors(platform) :
            /\ hist' = DidOsFail("socket", e)
            /\ os' = os
            /\ loc' = [loc EXCEPT !.sockfd = NoSocket,
                                  !.return_value = WAKE_ON_LAN_ERRORS_SOCKET_CREATION]
            /\ wol' = WolWith("last_error", e)
            /\ pc' = AfterBlock
       \/ /\ Cardinality(os.open) < MaxOpen
          /\ hist' = [Did("socket", FALSE) EXCEPT !.created = Append(@, NewSocket)]
          /\ os' = [os EXCEPT !.open = @ \cup { NewSocket }]
          /\ loc' = [loc EXCEPT !.sockfd = NewSocket]
          /\ wol' = wol
          /\ pc' = "build"
    /\ UNCHANGED << platform, caller, arg, cli, result, ncalls >>

\* the 16 copies of the MAC are stored behind the six 0xFF bytes
BuildPacket ==
    /\ pc = "build"
    /\ loc' = [loc EXCEPT !.data = FillData(loc.data, loc.mac)]
    /\ hist' = Did("build", FALSE)
    /\ pc' = "setsockopt"
    /\ UNCHANGED << platform, caller, arg, wol, os, cli, result, ncalls >>

\* setsockopt(sockfd, SOL_SOCKET, SO_BROADCAST, &optval, sizeof(optval))
SetBroadcast ==
    /\ pc = "setsockopt"
    /\ \/ \E e \in OsErrors(platform) :
            /\ hist' = DidOsFail("setsockopt", e)
            /\ os' = os
            /\ loc' = [loc EXCEPT !.return_value = WAKE_ON_LAN_ERRORS_SOCKET_OPTION]
            /\ wol' = WolWith("last_error", e)
            /\ pc' = AfterBlock
       \/ /\ hist' = Did("setsockopt", FALSE)
          /\ UNCHANGED << os, loc, wol >>
          /\ pc' = "sendto"
    /\ UNCHANGED << platform, caller, arg, cli, result, ncalls >>

\* the test of sendto_result against the length of the buffer
send_failed_short(p, sendto_result) == sendto_result # SizeofData

\* the test of sendto_result: SOCKET_ERROR == sendto_result, 0 > sendto_result
send_failed(p, sendto_result) ==
    IF p = "win32" THEN sendto_result = -1 ELSE 0 > sendto_result

\* a failed send stores the error code of the operating system
send_last_error_errno(p, sendto_result, err) == err

\* what a failed send stores in wol->last_error
send_last_error(p, sendto_result, err) == IF p = "win32" THEN err ELSE sendto_result

\* sendto(sockfd, data, sizeof(data), 0, &addr, sizeof(addr)) and the test
SendPacket ==
    /\ pc = "sendto"
    /\ \E r \in SendtoResults, e \in OsErrors(platform) :
          LET h == IF r < 0 THEN DidOsFail("sendto", e) ELSE Did("sendto", FALSE)
              datagram == [sockfd |-> loc.sockfd, data |-> loc.data,
                           data_length |-> SizeofData,
                           s_addr |-> Trunc(loc.ip_v4, 8), sin_port |-> arg.port,
                           sendto_result |-> r]
          IN  /\ hist' = [h EXCEPT !.sent = Append(@, datagram)]
              /\ IF send_failed(platform, r)
                 THEN /\ loc' = [loc EXCEPT !.sendto_result = r,
                                            !.return_value = WAKE_ON_LAN_ERRORS_SEND]
                      /\ wol' = WolWith("last_error", send_last_error(platform, r, h.os_error))
                 ELSE /\ loc' = [loc EXCEPT !.sendto_result = r,
                                            !.return_value = WAKE_ON_LAN_ERRORS_NONE]
                      /\ wol' = wol
    /\ pc' = AfterBlock
    /\ UNCHANGED << platform, caller, arg, os, cli, result, ncalls >>

\* whether the code after the block calls close/closesocket on sockfd
closes_socket(p, sockfd) == IF p = "win32" THEN sockfd # NoSocket ELSE TRUE

\* a failed close leaves the result code alone
code_after_failed_close_keep(p, return_value) == return_value

\* the result code after a close that failed
code_after_failed_close(p, return_value) ==
    IF p = "win32" THEN WAKE_ON_LAN_ERRORS_SOCKET_CLOSE ELSE return_value

\* closesocket(sockfd) under if(INVALID_SOCKET != sockfd), close(sockfd)
CloseSocket ==
    /\ pc = "close"
    /\ IF closes_socket(platform, loc.sockfd)
       THEN \E ok \in BOOLEAN, e \in OsErrors(platform) :
               LET fails == ~ok \/ loc.sockfd \notin os.open IN
               /\ hist' = [Did("close", FALSE)
                              EXCEPT !.closed = Append(@, loc.sockfd),
                                     !.close_error = IF fails THEN e ELSE 0,
                                     !.close_failed = fails /\ loc.sockfd \in os.open]
               /\ os' = [os EXCEPT !.open = @ \ { loc.sockfd }]
               /\ IF fails
                  THEN /\ loc' = [loc EXCEPT !.return_value =
                                     code_after_failed_close(platform, @)]
                       /\ wol' = IF platform = "win32"
                                 THEN WolWith("last_error", e) ELSE wol
                  ELSE UNCHANGED << loc, wol >>
       ELSE UNCHANGED << hist, os, loc, wol >>
    /\ pc' = IF platform = "win32" THEN "wsa_cleanup" ELSE "return"
    /\ UNCHANGED << platform, caller, arg, cli, result, ncalls >>

\* _WIN32: WSACleanup()
WsaCleanup ==
    /\ pc = "wsa_cleanup"
    /\ os' = [os EXCEPT !.wsa_cleaned = @ + 1]
    /\ hist' = Did("wsa_cleanup", FALSE)
    /\ pc' = "return"
    /\ UNCHANGED << platform, caller, arg, wol, loc, cli, result, ncalls >>

\* if(wol) { wol->return_value = return_value; } return return_value;
Return ==
    /\ pc = "return"
    /\ wol' = WolWith("return_value", loc.return_value)
    /\ result' = loc.return_value
    /\ pc' = IF caller = "cli" THEN "main_returned" ELSE "returned"
    /\ UNCHANGED << platform, caller, arg, loc, os, hist, cli, ncalls >>

\* the host program goes on: the frame of the call is gone
Resume ==
    /\ pc = "returned"
    /\ pc' = "idle"
    /\ caller' = "none"
    /\ arg' = NoArg
    /\ wol' = NoWol
    /\ loc' = InitialLoc
    /\ hist' = NoHist
    /\ UNCHANGED << platform, os, cli, result, ncalls >>

(***************************************************************************)
(* main                                                                    *)
(***************************************************************************)
\* the process is started with an argument vector
MainStart ==
    /\ pc = "start"
    /\ \E argv \in ArgvInputs : cli' = [InitialCli EXCEPT !.argv = argv]
    /\ pc' = "main_loop"
    /\ UNCHANGED << platform, caller, arg, wol, loc, os, hist, result, ncalls >>

\* strncpy(dst, src, 30 - 1) into a zeroed char[30]
strncpy29(src) == SubSeq(src, 1, IF Len(src) < 29 THEN Len(src) ELSE 29)

\* port = strtoumax(text, NULL, 10), converted to uint16_t
ToU16(x) == Limb(x, 0)

port_of(text) == ToU16(strtoumax(text, 0, 10).val)

\* the locals after one pass of the argument loop over argv[i], i++ included;
\* value is the text read as the value of -i, -p or -m
main_arg(c, a, value) ==
    IF At(a, 0) = 45
    THEN CASE At(a, 1) = 105 ->
                [c EXCEPT !.parameter_i = TRUE, !.ip = strncpy29(value), !.i = @ + 2]
           [] At(a, 1) = 112 ->
                [c EXCEPT !.port = port_of(value), !.i = @ + 2]
           [] At(a, 1) = 109 ->
                [c EXCEPT !.parameter_m = TRUE, !.mac = strncpy29(value), !.i = @ + 2]
           [] At(a, 1) = 104 -> [c EXCEPT !.help = TRUE, !.i = @ + 1]
           [] At(a, 1) = 115 -> [c EXCEPT !.silent = TRUE, !.i = @ + 1]
           [] OTHER -> [c EXCEPT !.i = @ + 1]
    ELSE [c EXCEPT !.i = @ + 1]

\* whether the pass over the argument a reads argv[i + 1]
takes_value(a) == At(a, 0) = 45 /\ At(a, 1) \in { 105, 112, 109 }

\* one pass of for (int i = 0; i < argc; ++i).  argv[argc] is the null
\* pointer: handing it to strncpy or strtoumax is undefined, and the process
\* either stops there or goes on with whatever text the read produced
MainArg ==
    /\ pc = "main_loop"
    /\ cli.i < Len(cli.argv)
    /\ LET a == cli.argv[cli.i + 1] IN
       IF takes_value(a) /\ cli.i + 1 = Len(cli.argv)
       THEN \/ /\ cli' = [cli EXCEPT !.null_read = TRUE]
               /\ pc' = "crashed"
            \/ /\ cli' = [main_arg(cli, a, << >>) EXCEPT !.null_read = TRUE]
               /\ pc' = "main_loop"
       ELSE /\ cli' = main_arg(cli, a,
                          IF takes_value(a) THEN cli.argv[cli.i + 2] ELSE << >>)
            /\ pc' = "main_loop"
    /\ UNCHANGED << platform, caller, arg, wol, loc, os, hist, result, ncalls >>

\* after the loop: int return_value = 1; and the call of wake_on_lan(NULL,
\* ip, port, mac) when both -i and -m were given, help = true otherwise
MainCall ==
    /\ pc = "main_loop"
    /\ cli.i >= Len(cli.argv)
    /\ IF cli.parameter_i /\ cli.parameter_m
       THEN /\ cli' = [cli EXCEPT !.return_value = 1]
            /\ arg' = [wol_given |-> FALSE, ip_v4_cstr |-> cli.ip, port |-> cli.port,
                       mac_cstr |-> cli.mac]
            /\ caller' = "cli"
            /\ loc' = InitialLoc
            /\ hist' = NoHist
            /\ ncalls' = ncalls + 1
            /\ pc' = "ip"
       ELSE /\ cli' = [cli EXCEPT !.return_value = 1, !.help = TRUE]
            /\ pc' = "main_help"
            /\ UNCHANGED << arg, caller, loc, hist, ncalls >>
    /\ UNCHANGED << platform, wol, os, result >>

\* int return_value = wake_on_lan(...) in the inner block, and the message
MainReturned ==
    /\ pc = "main_returned"
    /\ cli' = [cli EXCEPT
                 !.inner_return_value = result,
                 !.printed = IF 0 # result /\ 1 <= result /\ 9 >= result /\ ~cli.silent
                             THEN Append(@, << "Error", result >>) ELSE @]
    /\ pc' = "main_help"
    /\ UNCHANGED << platform, caller, arg, wol, loc, os, hist, result, ncalls >>

\* the value main returns: the return_value declared before the if
main_exit_code(c) == c.return_value

\* the help text, and return return_value;
MainExit ==
    /\ pc = "main_help"
    /\ cli' = [cli EXCEPT
                 !.printed = IF cli.help /\ ~cli.silent THEN Append(@, << "Help" >>) ELSE @,
                 !.exit_code = main_exit_code(cli)]
    /\ pc' = "exited"
    /\ UNCHANGED << platform, caller, arg, wol, loc, os, hist, result, ncalls >>

Next ==
    \/ Call
    \/ ParseIp
    \/ ParseMac
    \/ WsaStartup
    \/ CheckWinsock
    \/ CreateSocket
    \/ BuildPacket
    \/ SetBroadcast
    \/ SendPacket
    \/ CloseSocket
    \/ WsaCleanup
    \/ Return
    \/ Resume

\* a host program that calls wake_on_lan
Spec == Init /\ [][Next]_vars

\* the command line program
InitCli ==
    /\ platform \in { "posix", "win32" }
    /\ pc = "start"
    /\ caller = "none"
    /\ arg = NoArg
    /\ wol = NoWol
    /\ loc = InitialLoc
    /\ os = [open |-> {}, wsa_started |-> 0, wsa_cleaned |-> 0]
    /\ hist = NoHist
    /\ cli = InitialCli
    /\ result = WAKE_ON_LAN_ERRORS_NONE
    /\ ncalls = 0

NextCli ==
    \/ MainStart
    \/ MainArg
    \/ MainCall
    \/ ParseIp
    \/ ParseMac
    \/ WsaStartup
    \/ CheckWinsock
    \/ CreateSocket
    \/ BuildPacket
    \/ SetBroadcast
    \/ SendPacket
    \/ CloseSocket
    \/ WsaCleanup
    \/ Return
    \/ MainReturned
    \/ MainExit

SpecCli == InitCli /\ [][NextCli]_vars

(***************************************************************************)
(* Properties                                                              *)
(***************************************************************************)
\* the call has just returned: result is its value, hist what it did
Returned == pc \in { "returned", "main_returned" }

\* the fallible steps of a call, in the order of the source
StepOrder ==
    IF platform = "win32"
    THEN << "ip", "mac", "wsa_startup", "winsock", "socket", "build", "setsockopt", "sendto" >>
    ELSE << "ip", "mac", "socket", "build", "setsockopt", "sendto" >>

IsTeardown(step) == step \in { "close", "wsa_cleanup" }

IsStep(step) == ~IsTeardown(step)

\* the steps of the running call without the teardown
StepsDone == SelectSeq(hist.trace, IsStep)

\* the result code that belongs to a step
CodeOf(step) ==
    CASE step = "ip" -> WAKE_ON_LAN_ERRORS_IP
      [] step = "mac" -> WAKE_ON_LAN_ERRORS_MAC
      [] step = "wsa_startup" -> WAKE_ON_LAN_ERRORS_WSA_STARTUP
      [] step = "winsock" -> WAKE_ON_LAN_ERRORS_WINSOCK
      [] step = "socket" -> WAKE_ON_LAN_ERRORS_SOCKET_CREATION
      [] step = "setsockopt" -> WAKE_ON_LAN_ERRORS_SOCKET_OPTION
      [] step = "sendto" -> WAKE_ON_LAN_ERRORS_SEND
      [] OTHER -> WAKE_ON_LAN_ERRORS_UNKNOWN

\* the code of the first step that failed, NONE when none did
CodeOfSteps ==
    IF hist.failed = << >> THEN WAKE_ON_LAN_ERRORS_NONE ELSE CodeOf(hist.failed[1])

\* the close override of the _WIN32 variant applies
CloseOverride == platform = "win32" /\ hist.close_failed

\* C1: the steps of a call run in the fixed order IP parse, MAC parse,
\* (WSAStartup, version check), socket, packet, broadcast option, send, each
\* at most once and none after the teardown has begun; a step that fails is
\* the last step attempted; the call returns the code of the step that
\* failed, and NONE exactly when all steps ran and none failed (the close
\* override of the _WIN32 variant aside); UNKNOWN is never returned.
C1_FailFastInOrder ==
    /\ StepsDone = SubSeq(StepOrder, 1, Len(StepsDone))
    /\ \A i \in 1..Len(hist.trace) : \A j \in 1..Len(hist.trace) :
          (i < j /\ IsTeardown(hist.trace[i])) => IsTeardown(hist.trace[j])
    /\ hist.failed # << >> =>
          /\ Len(hist.failed) = 1
          /\ StepsDone[Len(StepsDone)] = hist.failed[1]
    /\ Returned =>
          /\ result # WAKE_ON_LAN_ERRORS_UNKNOWN
          /\ ~CloseOverride => result = CodeOfSteps
          /\ hist.failed = << >> => StepsDone = StepOrder
          /\ ~CloseOverride =>
                ((result = WAKE_ON_LAN_ERRORS_NONE) <=> (hist.failed = << >>))
          /\ ("ip" \in { hist.failed[k] : k \in 1..Len(hist.failed) }
               \/ "mac" \in { hist.failed[k] : k \in 1..Len(hist.failed) })
                => hist.created = << >>
          /\ (hist.failed # << >> /\ hist.failed[1] \in { "socket", "setsockopt" })
                => hist.sent = << >>

\* C1 witness: a call returned SOCKET_OPTION after a failed setsockopt, with
\* a socket created and nothing sent.
C1_Witness ==
    /\ pc = "returned"
    /\ hist.failed = << "setsockopt" >>
    /\ result = WAKE_ON_LAN_ERRORS_SOCKET_OPTION
    /\ hist.created # << >>
    /\ hist.sent = << >>

\* how often the descriptor fd was handed to close/closesocket in the call
CloseCount(fd) == Cardinality({ k \in 1..Len(hist.closed) : hist.closed[k] = fd })

\* C2: no socket created by a call is open once the call has returned: on
\* every exit path each created socket was handed to close exactly once
\* before the return, and between calls no socket is open.
C2_NoSocketLeft ==
    /\ pc \in { "idle", "returned", "main_returned" } => os.open = {}
    /\ Returned => \A k \in 1..Len(hist.created) : CloseCount(hist.created[k]) = 1
    /\ Len(hist.created) <= 1

\* C2 witness: the second call of a program returned on the SOCKET_OPTION
\* path with its socket created and closed.
C2_Witness ==
    /\ pc = "returned"
    /\ ncalls = 2
    /\ result = WAKE_ON_LAN_ERRORS_SOCKET_OPTION
    /\ hist.created # << >>
    /\ os.open = {}

\* byte n (0 the least significant) of a 48-bit value held in 16 nibbles
ByteOf(m, n) == 16 * m[15 - 2 * n] + m[16 - 2 * n]

\* C3: the buffer handed to sendto is 102 bytes long: bytes 0..5 are 0xFF
\* and byte 6k+j, k in 1..16 and j in 0..5, is byte 5-j of the parsed MAC;
\* for 00:11:22:33:44:55 the copies are 0x00 0x11 0x22 0x33 0x44 0x55.
C3_MagicPacket ==
    \A n \in 1..Len(hist.sent) :
        LET d == hist.sent[n] IN
        /\ d.data_length = 102
        /\ DOMAIN d.data = 0..101
        /\ \A k \in 0..5 : d.data[k] = 255
        /\ \A k \in 1..16 : \A j \in 0..5 : d.data[6 * k + j] = ByteOf(loc.mac, 5 - j)
        /\ arg.mac_cstr = GoodMac =>
              \A k \in 1..16 :
                 << d.data[6 * k], d.data[6 * k + 1], d.data[6 * k + 2],
                    d.data[6 * k + 3], d.data[6 * k + 4], d.data[6 * k + 5] >>
                 = << 0, 17, 34, 51, 68, 85 >>

\* C3 witness: the packet for 7F:80:FF:01:fe:81 was handed to sendto.
C3_Witness ==
    /\ hist.sent # << >>
    /\ arg.mac_cstr =
         Str(<< "7","F",":","8","0",":","F","F",":","0","1",":","f","e",":","8","1" >>)
    /\ hist.sent[1].data[6] = 127
    /\ hist.sent[1].data[101] = 129

\* C4: the exit code of main is 1 when help was shown or -i or -m was
\* missing, and the code wake_on_lan returned otherwise.
C4_ExitCode ==
    pc = "exited" =>
        cli.exit_code =
            IF cli.help \/ ~(cli.parameter_i /\ cli.parameter_m) THEN 1 ELSE result

\* the hex digit characters and their values, by table
HexTable ==
    << "0", "1", "2", "3", "4", "5", "6", "7", "8", "9", "A", "B", "C", "D", "E", "F" >>

HexTableLower ==
    << "0", "1", "2", "3", "4", "5", "6", "7", "8", "9", "a", "b", "c", "d", "e", "f" >>

HexCodes == [k \in 1..16 |-> Ord(HexTable[k])]

HexCodesLower == [k \in 1..16 |-> Ord(HexTableLower[k])]

IsHexChar(c) ==
    \E k \in 1..16 : c = HexCodes[k] \/ c = HexCodesLower[k]

HexValue(c) ==
    (CHOOSE k \in 1..16 : c = HexCodes[k] \/ c = HexCodesLower[k]) - 1

\* the hex digits among the first n characters of s, in order
HexDigitsIn(s, n) == SelectSeq(SubSeq(s, 1, IF Len(s) < n THEN Len(s) ELSE n), IsHexChar)

\* the MAC parser has run in the call at hand
MacParsed == \E k \in 1..Len(hist.trace) : hist.trace[k] = "mac"

\* AABBCCDDEEFF00: 14 contiguous hex digits
LongMac == Str(<< "A","A","B","B","C","C","D","D","E","E","F","F","0","0" >>)

\* aabbccddeeff: 12 hex digits in lower case
LowerMac == Str(<< "a","a","b","b","c","c","d","d","e","e","f","f" >>)

\* C5 as stated: the MAC parser fails unless the input contains exactly 12
\* hex digits, so an input with more than 12 hex digits fails as well.
C5_ExactlyTwelve ==
    (MacParsed /\ loc.mac # MinusOne64) =>
        Len(HexDigitsIn(arg.mac_cstr, Len(arg.mac_cstr))) = 12

\* C5 amended: the MAC parser fails if and only if the first 17 characters
\* of the input hold fewer than 12 hex digits, and wake_on_lan then returns
\* MAC; with 12 or more hex digits there it succeeds.
C5_FewerThanTwelveFails ==
    MacParsed =>
        /\ (loc.mac = MinusOne64) <=> (Len(HexDigitsIn(arg.mac_cstr, 17)) < 12)
        /\ (Returned /\ Len(HexDigitsIn(arg.mac_cstr, 17)) < 12)
              => result = WAKE_ON_LAN_ERRORS_MAC

\* C5 witness: AABBCCDDEEFF00, 14 contiguous hex digits, has parsed.
C5_Witness ==
    /\ MacParsed
    /\ arg.mac_cstr = LongMac
    /\ loc.mac # MinusOne64

\* C6: when the first 17 characters hold 12 hex digits h1..h12 (other
\* characters skipped), the MAC parser returns the value whose nibbles are
\* value(h1) .. value(h12), h1 the most significant, letters of either case
\* alike; FF:FF:FF:FF:FF:FF gives 0xFFFFFFFFFFFF, which is not the failure
\* signal.
C6_MacValue ==
    MacParsed =>
        \A h \in { HexDigitsIn(arg.mac_cstr, 17) } :
            Len(h) >= 12 =>
                /\ loc.mac = Zeros(4) \o [i \in 1..12 |-> HexValue(h[i])]
                /\ loc.mac # MinusOne64

\* C6 witness: aabbccddeeff in lower case has parsed to 0xAABBCCDDEEFF.
C6_Witness ==
    /\ MacParsed
    /\ arg.mac_cstr = LowerMac
    /\ loc.mac = << 0, 0, 0, 0, 10, 10, 11, 11, 12, 12, 13, 13, 14, 14, 15, 15 >>

\* the IPv4 parser has run in the call at hand
IpParsed == \E k \in 1..Len(hist.trace) : hist.trace[k] = "ip"

\* the parts the parser collected from the text of the call at hand
PartsOfCall == hist.ip_parts

\* the parts shifted to their places, as uint32_t values
ShiftedParts(octet, o) ==
    CASE octet = 4 -> << ShlN(o[1], 6), ShlN(o[2], 4), ShlN(o[3], 2), o[4] >>
      [] octet = 3 -> << ShlN(o[1], 6), ShlN(o[2], 4), o[3] >>
      [] octet = 2 -> << ShlN(o[1], 6), o[2] >>
      [] OTHER -> << o[1] >>

RECURSIVE OrAll(_)
OrAll(xs) == IF Len(xs) = 1 THEN xs[1] ELSE OrW(xs[1], OrAll(Tail(xs)))

\* the upper and the lower 16 bits of a uint32_t
Hi16(x) == 4096 * x[1] + 256 * x[2] + 16 * x[3] + x[4]

Lo16(x) == 4096 * x[5] + 256 * x[6] + 16 * x[7] + x[8]

RECURSIVE SumHi(_)
SumHi(xs) == IF xs = << >> THEN 0 ELSE Hi16(xs[1]) + SumHi(Tail(xs))

RECURSIVE SumLo(_)
SumLo(xs) == IF xs = << >> THEN 0 ELSE Lo16(xs[1]) + SumLo(Tail(xs))

\* the sum of uint32_t values modulo 2^32
SumMod32(xs) ==
    FromInt((SumHi(xs) + SumLo(xs) \div 65536) % 65536, 4) \o FromInt(SumLo(xs) % 65536, 4)

\* no two of the values have a set bit in common
NoSharedBit(xs) ==
    \A i \in 1..Len(xs) : \A j \in 1..Len(xs) :
        i < j => \A k \in 1..8 : NibOr(xs[i][k], xs[j][k]) = xs[i][k] + xs[j][k]

\* 1.256.0.0: the second part is larger than its field
CarryIp == Str(<< "1",".","2","5","6",".","0",".","0" >>)

\* 255.255.255.255
BroadcastIp == Str(<< "2","5","5",".","2","5","5",".","2","5","5",".","2","5","5" >>)

NoDigitScanned(s) ==
    \A k \in 1..Len(s) : k <= 13 => ~(48 <= s[k] /\ s[k] <= 57)

\* C8: the IPv4 parser returns -1 if and only if it collected no numeric
\* part; with at least one part the result lies in 0..2^32-1, so no address
\* is taken for the sentinel, and wake_on_lan returns IP exactly for the
\* texts without a part.
C8_SentinelOnlyWithoutParts ==
    IpParsed =>
        \A none \in { NoDigitScanned(arg.ip_v4_cstr) } :
            /\ (loc.ip_v4 = MinusOne64) <=> none
            /\ none <=> (PartsOfCall.octet = 0)
            /\ ~none => SubSeq(loc.ip_v4, 1, 8) = Zeros(8)
            /\ Returned => ((result = WAKE_ON_LAN_ERRORS_IP) <=> none)

\* C8 witness: 255.255.255.255 has parsed to 0xFFFFFFFF and the call went on
\* to the MAC parser.
C8_Witness ==
    /\ MacParsed
    /\ arg.ip_v4_cstr = BroadcastIp
    /\ loc.ip_v4 = Zeros(8) \o Ones(8)

\* C9 as stated: the result is NONE only if sendto reported all 102 bytes
\* sent; a count in 0..101 gives SEND.
C9_ShortSendFails ==
    (Returned /\ hist.sent # << >> /\ result = WAKE_ON_LAN_ERRORS_NONE) =>
        hist.sent[1].sendto_result = 102

\* C9 amended: the send step fails with SEND exactly when sendto returns a
\* negative value (SOCKET_ERROR); the count it returns is not compared with
\* 102, so a count in 0..101 is a success and the result is NONE (the close
\* override of the _WIN32 variant aside).
C9_SendFailsOnError ==
    (Returned /\ hist.sent # << >> /\ ~CloseOverride) =>
        /\ hist.sent[1].sendto_result < 0 => result = WAKE_ON_LAN_ERRORS_SEND
        /\ hist.sent[1].sendto_result >= 0 => result = WAKE_ON_LAN_ERRORS_NONE

\* C9 witness: sendto reported 101 of the 102 bytes and the call returned
\* NONE.
C9_Witness ==
    /\ pc = "returned"
    /\ hist.sent # << >>
    /\ hist.sent[1].sendto_result = 101
    /\ result = WAKE_ON_LAN_ERRORS_NONE

\* C10: on the _WIN32 variant, when a socket was created and its close
\* fails, the returned code and wol->return_value are SOCKET_CLOSE whatever
\* the code was before (NONE, SOCKET_OPTION or SEND); on the POSIX variant a
\* failing close leaves the code of the steps, and SOCKET_CLOSE, WSA_STARTUP
\* and WINSOCK are never returned.
C10_CloseOverride ==
    Returned =>
        /\ (platform = "win32" /\ hist.close_failed) =>
              /\ result = WAKE_ON_LAN_ERRORS_SOCKET_CLOSE
              /\ arg.wol_given => wol.return_value = WAKE_ON_LAN_ERRORS_SOCKET_CLOSE
        /\ (platform = "win32" /\ ~hist.close_failed) => result = CodeOfSteps
        /\ platform = "posix" =>
              /\ result = CodeOfSteps
              /\ result \notin { WAKE_ON_LAN_ERRORS_SOCKET_CLOSE,
                                 WAKE_ON_LAN_ERRORS_WSA_STARTUP,
                                 WAKE_ON_LAN_ERRORS_WINSOCK }

\* C10 witness: on _WIN32 a send failed, then the close failed, and the
\* call returned SOCKET_CLOSE in place of SEND.
C10_Witness ==
    /\ pc = "returned"
    /\ platform = "win32"
    /\ hist.failed = << "sendto" >>
    /\ hist.close_failed
    /\ arg.wol_given
    /\ result = WAKE_ON_LAN_ERRORS_SOCKET_CLOSE
    /\ wol.return_value = WAKE_ON_LAN_ERRORS_SOCKET_CLOSE

\* C11: with a wake_on_lan_t supplied, its ip_v4 holds the parsed address
\* if and only if the IP parse succeeded and its mac the parsed MAC if and
\* only if both parses succeeded, from the parse on and so through every
\* later step and failure; otherwise the field keeps what the caller put
\* there (after an IP failure the mac is untouched whatever the MAC text);
\* and on return its return_value is the code returned.
C11_DiagnosticsRecord ==
    arg.wol_given =>
        /\ wol.ip_v4 = IF IpParsed /\ loc.ip_v4 # MinusOne64
                       THEN Trunc(loc.ip_v4, 8) ELSE hist.wol_in.ip_v4
        /\ wol.mac = IF MacParsed /\ loc.mac # MinusOne64
                     THEN loc.mac ELSE hist.wol_in.mac
        /\ (IpParsed /\ arg.ip_v4_cstr = GoodIp) =>
              wol.ip_v4 = << 12, 0, 10, 8, 11, 2, 15, 15 >>
        /\ (MacParsed /\ arg.mac_cstr = LowerMac) =>
              wol.mac = << 0, 0, 0, 0, 10, 10, 11, 11, 12, 12, 13, 13, 14, 14, 15, 15 >>
        /\ (Returned /\ result = WAKE_ON_LAN_ERRORS_IP) => wol.mac = hist.wol_in.mac
        /\ Returned => wol.return_value = result

\* C11 witness: a call with a record holding stale values parsed both texts,
\* failed in sendto and returned; the record holds the parsed address and
\* MAC and the code SEND.
C11_Witness ==
    /\ pc = "returned"
    /\ arg.wol_given
    /\ hist.wol_in.return_value = WAKE_ON_LAN_ERRORS_UNKNOWN
    /\ hist.failed = << "sendto" >>
    /\ arg.ip_v4_cstr = GoodIp
    /\ wol.ip_v4 = << 12, 0, 10, 8, 11, 2, 15, 15 >>
    /\ wol.ip_v4 # hist.wol_in.ip_v4
    /\ wol.mac = loc.mac
    /\ wol.mac # hist.wol_in.mac
    /\ wol.return_value = WAKE_ON_LAN_ERRORS_SEND

\* the step of the call at hand that failed is socket, setsockopt or sendto
OsStepFailed ==
    /\ Returned
    /\ arg.wol_given
    /\ result \in { WAKE_ON_LAN_ERRORS_SOCKET_CREATION,
                    WAKE_ON_LAN_ERRORS_SOCKET_OPTION,
                    WAKE_ON_LAN_ERRORS_SEND }

\* C12 as stated: whenever wake_on_lan returns SOCKET_CREATION,
\* SOCKET_OPTION or SEND with a wake_on_lan_t supplied, last_error is the
\* error code the operating system reported for the failed call (errno,
\* WSAGetLastError()), for SEND too, and not the return value of sendto.
C12_LastErrorIsOsError ==
    OsStepFailed => wol.last_error = hist.os_error

\* C12 amended: for SOCKET_CREATION and SOCKET_OPTION last_error is the
\* error code the operating system reported for the failed call, on both
\* variants; for SEND it is WSAGetLastError() on _WIN32 and the return
\* value of sendto (a negative number, -1) on POSIX, not errno.
C12_LastErrorPerStep ==
    OsStepFailed =>
        /\ result # WAKE_ON_LAN_ERRORS_SEND => wol.last_error = hist.os_error
        /\ (result = WAKE_ON_LAN_ERRORS_SEND /\ platform = "win32") =>
              wol.last_error = hist.os_error
        /\ (result = WAKE_ON_LAN_ERRORS_SEND /\ platform = "posix") =>
              /\ wol.last_error = hist.sent[1].sendto_result
              /\ wol.last_error < 0
              /\ wol.last_error # hist.os_error

\* C12 witness: on POSIX sendto failed with errno 13 and the call returned
\* SEND with last_error -1.
C12_Witness ==
    /\ pc = "returned"
    /\ platform = "posix"
    /\ arg.wol_given
    /\ result = WAKE_ON_LAN_ERRORS_SEND
    /\ hist.os_error = 13
    /\ wol.last_error = -1

\* a decimal digit ('0'..'9')
IsDecChar(c) == 48 <= c /\ c <= 57

\* a numeric token: decimal digits not starting with 0, or 0 followed by
\* octal digits, or 0x / 0X followed by hex digits
IsNumericToken(t) ==
    /\ Len(t) >= 1
    /\ \/ /\ 49 <= t[1] /\ t[1] <= 57
          /\ \A k \in 2..Len(t) : IsDecChar(t[k])
       \/ /\ t[1] = 48
          /\ \A k \in 2..Len(t) : 48 <= t[k] /\ t[k] <= 55
       \/ /\ Len(t) >= 3
          /\ t[1] = 48
          /\ t[2] \in { 88, 120 }
          /\ \A k \in 3..Len(t) : IsHexChar(t[k])

\* four numeric tokens joined by single dots ('.' is 46)
IsDottedQuad(t) ==
    \E d1 \in 1..Len(t), d2 \in 1..Len(t), d3 \in 1..Len(t) :
        /\ d1 < d2 /\ d2 < d3
        /\ { k \in 1..Len(t) : t[k] = 46 } = { d1, d2, d3 }
        /\ IsNumericToken(SubSeq(t, 1, d1 - 1))
        /\ IsNumericToken(SubSeq(t, d1 + 1, d2 - 1))
        /\ IsNumericToken(SubSeq(t, d2 + 1, d3 - 1))
        /\ IsNumericToken(SubSeq(t, d3 + 1, Len(t)))

\* a text made of four numeric tokens joined by single dots, whatever
\* characters other than digits precede it
IsFourTokenText(s) ==
    \E k \in 1..Len(s) :
        /\ \A j \in 1..(k - 1) : ~IsDecChar(s[j])
        /\ IsDottedQuad(SubSeq(s, k, Len(s)))

\* the texts of that form among those a caller passes
FourTokenInputs == { s \in IpInputs : IsFourTokenText(s) }

\* " 192.168.178.255": the address after one space
SpacedIp ==
    Str(<< " ","1","9","2",".","1","6","8",".","1","7","8",".","2","5","5" >>)

\* "0xC0.0xA8.0xB2.0xFF": the address with its parts in hex
HexIp ==
    Str(<< "0","x","C","0",".","0","x","A","8",".","0","x","B","2",".","0","x","F","F" >>)

\* C13: as called by wake_on_lan, every text made of four numeric tokens
\* joined by single dots has all four parts collected, whatever its length
\* and whatever precedes it; 0xC0.0xA8.0xB2.0xFF and " 192.168.178.255"
\* both give 3232286975 (0xC0A8B2FF).
C13_FourTokensCollected ==
    (IpParsed /\ arg.ip_v4_cstr \in FourTokenInputs) =>
        /\ PartsOfCall.octet = 4
        /\ arg.ip_v4_cstr \in { SpacedIp, HexIp } =>
              loc.ip_v4 = Zeros(8) \o << 12, 0, 10, 8, 11, 2, 15, 15 >>

\* the call at hand has performed the step
Performed(step) == \E k \in 1..Len(hist.trace) : hist.trace[k] = step

\* WSAStartup was called in the call at hand and returned 0
WsaStartupSucceeded ==
    /\ Performed("wsa_startup")
    /\ \A k \in 1..Len(hist.failed) : hist.failed[k] # "wsa_startup"

\* C14: on _WIN32, within one call WSACleanup is performed if and only if
\* WSAStartup was performed and succeeded earlier in that call, after the
\* close attempt; so between calls the number of WSACleanup calls equals the
\* number of successful WSAStartup calls, calls ending with IP, MAC or
\* WSA_STARTUP included.
C14_ScopedWinsock ==
    platform = "win32" =>
        /\ Performed("wsa_cleanup") => WsaStartupSucceeded
        /\ Returned => (Performed("wsa_cleanup") <=> WsaStartupSucceeded)
        /\ \A i \in 1..Len(hist.trace) : \A j \in 1..Len(hist.trace) :
              (hist.trace[i] = "wsa_cleanup" /\ hist.trace[j] = "close") => j < i
        /\ pc \in { "idle", "returned" } => os.wsa_cleaned = os.wsa_started

\* C15: the argument loop of main reads argv[i] only for i < argc: argv[argc],
\* the null pointer, is never taken as the value of a trailing -i, -p or -m
\* and never handed to strncpy or strtoumax.
C15_NoReadOfArgvArgc == ~cli.null_read

====
